---- MODULE Spec2Model ----
(***************************************************************************)
(* pqxx::stream_from (src/src/stream_from.cxx): the COPY ... TO STDOUT     *)
(* text-mode row decoder, and the glyph-boundary scanners it walks a raw   *)
(* line with.                                                              *)
(*                                                                         *)
(* Bytes are the integers 0..255.  The scanners take a C buffer            *)
(* `const char buffer[]` and its length separately; here `buffer` is the   *)
(* memory the pointer gives access to: the buffer's bytes followed by the  *)
(* byte that happens to lie right after them.  The byte at C offset i is   *)
(* buffer[i + 1].  What lies after a buffer is not known to the program,   *)
(* so each call sees any of BeyondBytes there.                             *)
(***************************************************************************)
EXTENDS Integers, Sequences, FiniteSets, TLC

(***************************************************************************)
(* Bounds of the model.                                                    *)
(***************************************************************************)
\* Longest buffer handed to a glyph scanner in SpecScan.
MaxBufLen == 4
\* Longest raw line the line source delivers in Spec.
MaxLineLen == 3

(***************************************************************************)
(* The encoding groups (enum encoding_group, the cases of                  *)
(* DISPATCH_ENCODING_OPERATION).                                           *)
(***************************************************************************)
EncodingGroups ==
  { "MONOBYTE", "BIG5", "EUC_CN", "EUC_JP", "EUC_JIS_2004", "EUC_KR",
    "EUC_TW", "GB18030", "GBK", "JOHAB", "MULE_INTERNAL", "SJIS",
    "SHIFT_JIS_2004", "UHC", "UTF8" }

(***************************************************************************)
(* Helpers of the scanners.                                                *)
(***************************************************************************)
\* get_byte(buffer, offset): the byte at C offset `offset`.  Memory past
\* the modelled sequence reads as its last element (the byte after the
\* buffer).
get_byte(buffer, offset) ==
  IF offset < Len(buffer) THEN buffer[offset + 1] ELSE buffer[Len(buffer)]

between_inc(value, bottom, top) == value >= bottom /\ value <= top

\* The C offsets start .. start + count - 1.
Span(start, count) == { start + i : i \in 0 .. (count - 1) }

\* A scanner's outcome.  kind "offset": it returned `end`.  kind "npos": it
\* returned std::string::npos.  kind "error": it threw pqxx::argument_error
\* with a message naming `name`, the offset `at` and `count` bytes.  `reads`
\* is the set of C offsets of `buffer` the call read.
Returned(end, reads) ==
  [kind |-> "offset", end |-> end, name |-> "", at |-> 0, count |-> 0,
   reads |-> reads]

ReturnedNpos ==
  [kind |-> "npos", end |-> 0, name |-> "", at |-> 0, count |-> 0,
   reads |-> {}]

\* throw_for_encoding_error formats bytes start .. start + count - 1 of the
\* buffer into the message; `reads` are the offsets read before the throw.
throw_for_encoding_error(encoding_name, buffer, start, count, reads) ==
  [kind |-> "error", end |-> 0, name |-> encoding_name, at |-> start,
   count |-> count, reads |-> reads \cup Span(start, count)]

(***************************************************************************)
(* The scanners, one per encoding group.                                   *)
(***************************************************************************)
next_seq_for_euc_jplike(buffer, buffer_len, start, encoding_name) ==
  IF start >= buffer_len THEN ReturnedNpos
  ELSE LET first_byte == get_byte(buffer, start)
           second_byte == get_byte(buffer, start + 1)
           third_byte == get_byte(buffer, start + 2)
       IN
  IF first_byte < 128 THEN Returned(start + 1, Span(start, 1))
  ELSE IF start + 2 > buffer_len
  THEN throw_for_encoding_error(encoding_name, buffer, start, 1, Span(start, 1))
  ELSE IF first_byte = 142
  THEN IF ~between_inc(second_byte, 161, 254)
       THEN throw_for_encoding_error(encoding_name, buffer, start, 2, Span(start, 2))
       ELSE Returned(start + 2, Span(start, 2))
  ELSE IF between_inc(first_byte, 161, 254)
  THEN IF ~between_inc(second_byte, 161, 254)
       THEN throw_for_encoding_error(encoding_name, buffer, start, 2, Span(start, 2))
       ELSE Returned(start + 2, Span(start, 2))
  ELSE IF first_byte = 143 /\ start + 3 <= buffer_len
  THEN IF ~between_inc(second_byte, 161, 254) \/ ~between_inc(third_byte, 161, 254)
       THEN throw_for_encoding_error(encoding_name, buffer, start, 3, Span(start, 3))
       ELSE Returned(start + 3, Span(start, 3))
  ELSE throw_for_encoding_error(encoding_name, buffer, start, 1, Span(start, 2))

next_seq_for_sjislike(buffer, buffer_len, start, encoding_name) ==
  IF start >= buffer_len THEN ReturnedNpos
  ELSE LET first_byte == get_byte(buffer, start)
           second_byte == get_byte(buffer, start + 1)
       IN
  IF first_byte < 128 \/ between_inc(first_byte, 161, 223)
  THEN Returned(start + 1, Span(start, 1))
  ELSE IF ~between_inc(first_byte, 129, 159) /\ ~between_inc(first_byte, 224, 252)
  THEN throw_for_encoding_error(encoding_name, buffer, start, 1, Span(start, 1))
  ELSE IF start + 2 > buffer_len
  THEN throw_for_encoding_error(encoding_name, buffer, start, buffer_len - start,
                                Span(start, 1))
  ELSE IF second_byte = 127
  THEN throw_for_encoding_error(encoding_name, buffer, start, 2, Span(start, 2))
  ELSE IF between_inc(second_byte, 64, 158) \/ between_inc(second_byte, 159, 252)
  THEN Returned(start + 2, Span(start, 2))
  ELSE throw_for_encoding_error(encoding_name, buffer, start, 2, Span(start, 2))

\* A single-byte scanner that returns the offset it was given.
next_seq_MONOBYTE_without_advance(buffer, buffer_len, start) ==
  IF start >= buffer_len THEN ReturnedNpos ELSE Returned(start, {})

next_seq_MONOBYTE(buffer, buffer_len, start) ==
  IF start >= buffer_len THEN ReturnedNpos ELSE Returned(start + 1, {})

\* next_seq<BIG5> without its test that the second byte lies inside the
\* buffer.
next_seq_BIG5_no_length_check(buffer, buffer_len, start) ==
  IF start >= buffer_len THEN ReturnedNpos
  ELSE LET first_byte == get_byte(buffer, start)
           second_byte == get_byte(buffer, start + 1)
       IN
  IF first_byte < 128 THEN Returned(start + 1, Span(start, 1))
  ELSE IF ~between_inc(first_byte, 129, 254)
  THEN throw_for_encoding_error("BIG5", buffer, start, 1, Span(start, 1))
  ELSE IF ~between_inc(second_byte, 64, 126) /\ ~between_inc(second_byte, 161, 254)
  THEN throw_for_encoding_error("BIG5", buffer, start, 2, Span(start, 2))
  ELSE Returned(start + 2, Span(start, 2))

next_seq_BIG5(buffer, buffer_len, start) ==
  IF start >= buffer_len THEN ReturnedNpos
  ELSE LET first_byte == get_byte(buffer, start)
           second_byte == get_byte(buffer, start + 1)
       IN
  IF first_byte < 128 THEN Returned(start + 1, Span(start, 1))
  ELSE IF ~between_inc(first_byte, 129, 254) \/ (start + 2 > buffer_len)
  THEN throw_for_encoding_error("BIG5", buffer, start, 1, Span(start, 1))
  ELSE IF ~between_inc(second_byte, 64, 126) /\ ~between_inc(second_byte, 161, 254)
  THEN throw_for_encoding_error("BIG5", buffer, start, 2, Span(start, 2))
  ELSE Returned(start + 2, Span(start, 2))

next_seq_EUC_CN(buffer, buffer_len, start) ==
  IF start >= buffer_len THEN ReturnedNpos
  ELSE LET first_byte == get_byte(buffer, start)
           second_byte == get_byte(buffer, start + 1)
       IN
  IF first_byte < 128 THEN Returned(start + 1, Span(start, 1))
  ELSE IF ~between_inc(first_byte, 161, 247) \/ start + 2 > buffer_len
  THEN throw_for_encoding_error("EUC_CN", buffer, start, 1, Span(start, 1))
  ELSE IF ~between_inc(second_byte, 161, 254)
  THEN throw_for_encoding_error("EUC_CN", buffer, start, 2, Span(start, 2))
  ELSE Returned(start + 2, Span(start, 2))

next_seq_EUC_JP(buffer, buffer_len, start) ==
  next_seq_for_euc_jplike(buffer, buffer_len, start, "EUC_JP")

next_seq_EUC_JIS_2004(buffer, buffer_len, start) ==
  next_seq_for_euc_jplike(buffer, buffer_len, start, "EUC_JIS_2004")

next_seq_EUC_KR(buffer, buffer_len, start) ==
  IF start >= buffer_len THEN ReturnedNpos
  ELSE LET first_byte == get_byte(buffer, start)
           second_byte == get_byte(buffer, start + 1)
       IN
  IF first_byte < 128 THEN Returned(start + 1, Span(start, 1))
  ELSE IF ~between_inc(first_byte, 161, 254) \/ start + 2 > buffer_len
  THEN throw_for_encoding_error("EUC_KR", buffer, start, 1, Span(start, 1))
  ELSE IF ~between_inc(second_byte, 161, 254)
  THEN throw_for_encoding_error("EUC_KR", buffer, start, 1, Span(start, 2))
  ELSE Returned(start + 2, Span(start, 2))

next_seq_EUC_TW(buffer, buffer_len, start) ==
  IF start >= buffer_len THEN ReturnedNpos
  ELSE LET first_byte == get_byte(buffer, start)
           second_byte == get_byte(buffer, start + 1)
       IN
  IF first_byte < 128 THEN Returned(start + 1, Span(start, 1))
  ELSE IF start + 2 > buffer_len
  THEN throw_for_encoding_error("EUC_KR", buffer, start, 1, Span(start, 1))
  ELSE IF between_inc(first_byte, 161, 254)
  THEN IF ~between_inc(second_byte, 161, 254)
       THEN throw_for_encoding_error("EUC_KR", buffer, start, 2, Span(start, 2))
       ELSE Returned(start + 2, Span(start, 2))
  ELSE IF first_byte # 142 \/ start + 4 > buffer_len
  THEN throw_for_encoding_error("EUC_KR", buffer, start, 1, Span(start, 2))
  ELSE IF /\ between_inc(second_byte, 161, 176)
          /\ between_inc(get_byte(buffer, start + 2), 161, 254)
          /\ between_inc(get_byte(buffer, start + 3), 161, 254)
  THEN Returned(start + 4, Span(start, 4))
  ELSE throw_for_encoding_error("EUC_KR", buffer, start, 4, Span(start, 2))

next_seq_GB18030(buffer, buffer_len, start) ==
  IF start >= buffer_len THEN ReturnedNpos
  ELSE LET first_byte == get_byte(buffer, start)
           second_byte == get_byte(buffer, start + 1)
       IN
  IF between_inc(first_byte, 128, 255) THEN Returned(start + 1, Span(start, 1))
  ELSE IF start + 2 > buffer_len
  THEN throw_for_encoding_error("GB18030", buffer, start, buffer_len - start,
                                Span(start, 1))
  ELSE IF between_inc(second_byte, 64, 254)
  THEN IF second_byte = 127
       THEN throw_for_encoding_error("GB18030", buffer, start, 2, Span(start, 2))
       ELSE Returned(start + 2, Span(start, 2))
  ELSE IF start + 4 > buffer_len
  THEN throw_for_encoding_error("GB18030", buffer, start, buffer_len - start,
                                Span(start, 2))
  ELSE IF /\ between_inc(second_byte, 48, 57)
          /\ between_inc(get_byte(buffer, start + 2), 129, 254)
          /\ between_inc(get_byte(buffer, start + 3), 48, 57)
  THEN Returned(start + 4, Span(start, 4))
  ELSE throw_for_encoding_error("GB18030", buffer, start, 4, Span(start, 2))

next_seq_GBK(buffer, buffer_len, start) ==
  IF start >= buffer_len THEN ReturnedNpos
  ELSE LET first_byte == get_byte(buffer, start)
           second_byte == get_byte(buffer, start + 1)
       IN
  IF get_byte(buffer, start) < 128 THEN Returned(start + 1, Span(start, 1))
  ELSE IF start + 2 > buffer_len
  THEN throw_for_encoding_error("GBK", buffer, start, 1, Span(start, 1))
  ELSE IF \/ between_inc(first_byte, 161, 169) /\ between_inc(second_byte, 161, 254)
          \/ between_inc(first_byte, 176, 247) /\ between_inc(second_byte, 161, 254)
          \/ /\ between_inc(first_byte, 129, 160)
             /\ between_inc(second_byte, 64, 254)
             /\ second_byte # 127
          \/ /\ between_inc(first_byte, 170, 254)
             /\ between_inc(second_byte, 64, 160)
             /\ second_byte # 127
          \/ /\ between_inc(first_byte, 168, 169)
             /\ between_inc(second_byte, 64, 160)
             /\ second_byte # 127
          \/ between_inc(first_byte, 170, 175) /\ between_inc(second_byte, 161, 254)
          \/ between_inc(first_byte, 248, 254) /\ between_inc(second_byte, 161, 254)
          \/ /\ between_inc(first_byte, 161, 167)
             /\ between_inc(second_byte, 64, 160)
             /\ second_byte # 127
  THEN Returned(start + 2, Span(start, 2))
  ELSE throw_for_encoding_error("GBK", buffer, start, 2, Span(start, 2))

\* second_byte is read at `start`, as the code reads it.
next_seq_JOHAB(buffer, buffer_len, start) ==
  IF start >= buffer_len THEN ReturnedNpos
  ELSE LET first_byte == get_byte(buffer, start)
           second_byte == get_byte(buffer, start)
       IN
  IF first_byte < 128 THEN Returned(start + 1, Span(start, 1))
  ELSE IF start + 2 > buffer_len
  THEN throw_for_encoding_error("JOHAB", buffer, start, 1, Span(start, 1))
  ELSE IF \/ /\ between_inc(first_byte, 132, 211)
             /\ \/ between_inc(second_byte, 65, 126)
                \/ between_inc(second_byte, 129, 254)
          \/ /\ \/ between_inc(first_byte, 216, 222)
                \/ between_inc(first_byte, 224, 249)
             /\ \/ between_inc(second_byte, 49, 126)
                \/ between_inc(second_byte, 145, 254)
  THEN Returned(start + 2, Span(start, 1))
  ELSE throw_for_encoding_error("JOHAB", buffer, start, 2, Span(start, 1))

\* The four-byte branch reads the bytes at start + 2 and start + 4 (not
\* start + 3), short-circuiting left to right, after checking only that
\* start + 4 <= buffer_len.
next_seq_MULE_INTERNAL(buffer, buffer_len, start) ==
  IF start >= buffer_len THEN ReturnedNpos
  ELSE LET first_byte == get_byte(buffer, start)
           second_byte == get_byte(buffer, start + 1)
           lead4 == \/ first_byte = 156 /\ between_inc(second_byte, 240, 244)
                    \/ first_byte = 157 /\ between_inc(second_byte, 245, 254)
           third_ok == get_byte(buffer, start + 2) >= 160
           reads4 == Span(start, 2)
                       \cup (IF lead4 THEN {start + 2} ELSE {})
                       \cup (IF lead4 /\ third_ok THEN {start + 4} ELSE {})
       IN
  IF first_byte < 128 THEN Returned(start + 1, Span(start, 1))
  ELSE IF start + 2 > buffer_len
  THEN throw_for_encoding_error("MULE_INTERNAL", buffer, start, 1, Span(start, 1))
  ELSE IF between_inc(first_byte, 129, 141) /\ second_byte >= 160
  THEN Returned(start + 2, Span(start, 2))
  ELSE IF start + 3 > buffer_len
  THEN throw_for_encoding_error("MULE_INTERNAL", buffer, start, 2, Span(start, 2))
  ELSE IF /\ \/ first_byte = 154 /\ between_inc(second_byte, 160, 223)
             \/ first_byte = 155 /\ between_inc(second_byte, 224, 239)
             \/ between_inc(first_byte, 144, 153) /\ second_byte >= 160
          /\ second_byte >= 160
  THEN Returned(start + 3, Span(start, 2))
  ELSE IF start + 4 > buffer_len
  THEN throw_for_encoding_error("MULE_INTERNAL", buffer, start, 3, Span(start, 2))
  ELSE IF lead4 /\ third_ok /\ get_byte(buffer, start + 4) >= 160
  THEN Returned(start + 4, reads4)
  ELSE throw_for_encoding_error("MULE_INTERNAL", buffer, start, 4, reads4)

next_seq_SJIS(buffer, buffer_len, start) ==
  next_seq_for_sjislike(buffer, buffer_len, start, "SJIS")

next_seq_SHIFT_JIS_2004(buffer, buffer_len, start) ==
  next_seq_for_sjislike(buffer, buffer_len, start, "SHIFT_JIS_2004")

next_seq_UHC(buffer, buffer_len, start) ==
  IF start >= buffer_len THEN ReturnedNpos
  ELSE LET first_byte == get_byte(buffer, start)
           second_byte == get_byte(buffer, start + 1)
       IN
  IF first_byte < 128 THEN Returned(start + 1, Span(start, 1))
  ELSE IF start + 2 > buffer_len
  THEN throw_for_encoding_error("UHC", buffer, start, buffer_len - start,
                                Span(start, 1))
  ELSE IF between_inc(first_byte, 128, 198)
  THEN IF \/ between_inc(second_byte, 65, 90)
          \/ between_inc(second_byte, 97, 122)
          \/ between_inc(second_byte, 128, 254)
       THEN Returned(start + 2, Span(start, 2))
       ELSE throw_for_encoding_error("UHC", buffer, start, 2, Span(start, 2))
  ELSE IF between_inc(first_byte, 161, 254)
  THEN IF ~between_inc(second_byte, 161, 254)
       THEN throw_for_encoding_error("UHC", buffer, start, 2, Span(start, 2))
       ELSE Returned(start + 2, Span(start, 2))
  ELSE throw_for_encoding_error("UHC", buffer, start, 1, Span(start, 2))

next_seq_UTF8(buffer, buffer_len, start) ==
  IF start >= buffer_len THEN ReturnedNpos
  ELSE LET first_byte == get_byte(buffer, start)
           second_byte == get_byte(buffer, start + 1)
           third_byte == get_byte(buffer, start + 2)
       IN
  IF first_byte < 128 THEN Returned(start + 1, Span(start, 1))
  ELSE IF start + 2 > buffer_len
  THEN throw_for_encoding_error("UTF8", buffer, start, buffer_len - start,
                                Span(start, 1))
  ELSE IF between_inc(first_byte, 192, 223)
  THEN IF ~between_inc(second_byte, 128, 191)
       THEN throw_for_encoding_error("UTF8", buffer, start, 2, Span(start, 2))
       ELSE Returned(start + 2, Span(start, 2))
  ELSE IF start + 3 > buffer_len
  THEN throw_for_encoding_error("UTF8", buffer, start, buffer_len - start,
                                Span(start, 2))
  ELSE IF between_inc(first_byte, 224, 239)
  THEN IF between_inc(second_byte, 128, 191) /\ between_inc(third_byte, 128, 191)
       THEN Returned(start + 3, Span(start, 3))
       ELSE throw_for_encoding_error("UTF8", buffer, start, 3, Span(start, 3))
  ELSE IF start + 4 > buffer_len
  THEN throw_for_encoding_error("UTF8", buffer, start, buffer_len - start,
                                Span(start, 3))
  ELSE IF between_inc(first_byte, 240, 247)
  THEN IF /\ between_inc(second_byte, 128, 191)
          /\ between_inc(third_byte, 128, 191)
          /\ between_inc(get_byte(buffer, start + 3), 128, 191)
       THEN Returned(start + 4, Span(start, 4))
       ELSE throw_for_encoding_error("UTF8", buffer, start, 4, Span(start, 3))
  ELSE throw_for_encoding_error("UTF8", buffer, start, 1, Span(start, 3))

\* The runtime entry point: DISPATCH_ENCODING_OPERATION(enc, next_seq, ...).
next_seq(enc, buffer, buffer_len, start) ==
  CASE enc = "MONOBYTE" -> next_seq_MONOBYTE(buffer, buffer_len, start)
    [] enc = "BIG5" -> next_seq_BIG5(buffer, buffer_len, start)
    [] enc = "EUC_CN" -> next_seq_EUC_CN(buffer, buffer_len, start)
    [] enc = "EUC_JP" -> next_seq_EUC_JP(buffer, buffer_len, start)
    [] enc = "EUC_JIS_2004" -> next_seq_EUC_JIS_2004(buffer, buffer_len, start)
    [] enc = "EUC_KR" -> next_seq_EUC_KR(buffer, buffer_len, start)
    [] enc = "EUC_TW" -> next_seq_EUC_TW(buffer, buffer_len, start)
    [] enc = "GB18030" -> next_seq_GB18030(buffer, buffer_len, start)
    [] enc = "GBK" -> next_seq_GBK(buffer, buffer_len, start)
    [] enc = "JOHAB" -> next_seq_JOHAB(buffer, buffer_len, start)
    [] enc = "MULE_INTERNAL" -> next_seq_MULE_INTERNAL(buffer, buffer_len, start)
    [] enc = "SJIS" -> next_seq_SJIS(buffer, buffer_len, start)
    [] enc = "SHIFT_JIS_2004" -> next_seq_SHIFT_JIS_2004(buffer, buffer_len, start)
    [] enc = "UHC" -> next_seq_UHC(buffer, buffer_len, start)
    [] enc = "UTF8" -> next_seq_UTF8(buffer, buffer_len, start)

(***************************************************************************)
(* State.  The sc_* variables are one glyph-scanner call on its own (the   *)
(* scanners are callable directly, see find_with_encoding and next_seq);   *)
(* the others are one stream_from object.                                  *)
(***************************************************************************)
VARIABLES
  sc_enc,      \* scanner call: the encoding group
  sc_buffer,   \* scanner call: the bytes of the buffer
  sc_len,      \* scanner call: buffer_len
  sc_start,    \* scanner call: start
  sc_result,   \* scanner call: the outcome, or NoResult before the call
  sc_pc,       \* "ready" before the call, "scanned" after it
  m_glyph_scanner, \* the stream's scanner: its encoding group
  m_finished,  \* stream_from::m_finished
  m_registered, \* registered with the transaction (register_me .. unregister_me)
  m_fields,    \* stream_from::m_fields: the field views of the current row
  m_row,       \* stream_from::m_row: the bytes parse_line stored so far
  m_row_size,  \* size of m_row after parse_line's resize
  line_kind,   \* parse_line's local `line`: "none", "null" or "data"
  line,        \* its bytes
  line_size,   \* parse_line's local line_size
  read,        \* parse_line's local `read`, as an offset from line_begin
  field_begin, \* parse_line's local field_begin: offset in m_row, or NullPtr
  iterations,  \* iterations of parse_line's loop begun in the latest read_row()
  pc,          \* "unbuilt", then "idle" between calls, "fetch" and "parsing"
               \* inside read_row(), "destroyed"; "failed" if no stream came
  outcome,     \* how the latest public operation ended
  call,        \* the public operation under way, or the latest one
  registrations,   \* calls of register_me() so far
  unregistrations, \* calls of unregister_me() so far
  finished_before, \* m_finished when the latest public operation began
  server_encoding, \* the connection's encoding, as pg_encoding_to_char names it
  exec0_calls,     \* COPY commands issued so far
  read_copy_line,  \* what the line source last did for the latest call
  pending_errors   \* what reg_pending_error() recorded, oldest first

scan_vars == <<sc_enc, sc_buffer, sc_len, sc_start, sc_result, sc_pc>>

\* What the transaction and the connection see of the stream.
session_vars ==
  <<server_encoding, registrations, unregistrations, exec0_calls, pending_errors>>

stream_vars ==
  <<m_glyph_scanner, m_finished, m_registered, m_fields, m_row, m_row_size,
    line_kind, line, line_size, read, field_begin, iterations, pc, outcome, call,
    finished_before, read_copy_line, session_vars>>

vars == <<scan_vars, stream_vars>>

NoResult ==
  [kind |-> "none", end |-> 0, name |-> "", at |-> 0, count |-> 0,
   reads |-> {}]

\* Sequences over S of length 0 .. n.
SeqsUpTo(S, n) == UNION { [1 .. k -> S] : k \in 0 .. n }

\* Representative bytes per encoding group: ASCII bytes inside and outside
\* the trailing-byte ranges, and high bytes on both sides of every range
\* boundary the group's scanner tests.
ScanBytes(enc) ==
  CASE enc = "MONOBYTE" -> {48, 92, 128, 255}
    [] enc = "BIG5" -> {48, 92, 127, 128, 161, 255}
    [] enc = "EUC_CN" -> {48, 92, 128, 161, 248}
    [] enc \in {"EUC_JP", "EUC_JIS_2004"} -> {48, 92, 128, 142, 143, 161}
    [] enc = "EUC_KR" -> {48, 92, 128, 161, 255}
    [] enc = "EUC_TW" -> {48, 92, 128, 142, 161, 177}
    [] enc = "GB18030" -> {9, 48, 92, 127, 129, 255}
    [] enc = "GBK" -> {48, 92, 127, 128, 129, 161}
    [] enc = "JOHAB" -> {48, 92, 128, 132, 216, 255}
    [] enc = "MULE_INTERNAL" -> {48, 129, 154, 156, 160, 240}
    [] enc \in {"SJIS", "SHIFT_JIS_2004"} -> {48, 92, 127, 128, 129, 161}
    [] enc = "UHC" -> {48, 92, 129, 161, 199, 255}
    [] enc = "UTF8" -> {48, 128, 195, 228, 240, 248}

\* What may lie in memory right after a buffer.
BeyondBytes == {0, 161}

(***************************************************************************)
(* SpecScan: one scanner call on any buffer, at any start <= buffer_len,   *)
(* and then the walk find_with_encoding and parse_line make: the next call *)
(* starts where the last glyph ended.                                      *)
(***************************************************************************)
\* nullptr, as a value of field_begin.
NullPtr == -1

\* The stream as its constructor leaves it, for a given scanner.
StreamStart(enc) ==
  /\ m_glyph_scanner = enc
  /\ m_finished = FALSE
  /\ m_registered = TRUE
  /\ call = "stream_from"
  /\ finished_before = FALSE
  /\ server_encoding = "SQL_ASCII"
  /\ registrations = 1
  /\ unregistrations = 0
  /\ exec0_calls = 1
  /\ read_copy_line = "not called"
  /\ pending_errors = <<>>
  /\ m_fields = <<>>
  /\ m_row = <<>>
  /\ m_row_size = 0
  /\ line_kind = "none"
  /\ line = <<>>
  /\ line_size = 0
  /\ read = 0
  /\ field_begin = 0
  /\ iterations = 0
  /\ pc = "idle"
  /\ outcome = "none"

\* No scanner call of its own is under way.
ScanIdle ==
  /\ sc_enc = "MONOBYTE"
  /\ sc_buffer = <<>>
  /\ sc_len = 0
  /\ sc_start = 0
  /\ sc_result = NoResult
  /\ sc_pc = "off"

ScanInit ==
  /\ StreamStart("MONOBYTE")
  /\ sc_enc \in EncodingGroups
  /\ sc_buffer \in SeqsUpTo(ScanBytes(sc_enc), MaxBufLen)
  /\ sc_len = Len(sc_buffer)
  /\ sc_start \in 0 .. sc_len
  /\ sc_result = NoResult
  /\ sc_pc = "ready"

Scan ==
  /\ sc_pc = "ready"
  /\ \E beyond \in BeyondBytes :
       sc_result' = next_seq(sc_enc, sc_buffer \o <<beyond>>, sc_len, sc_start)
  /\ sc_pc' = "scanned"
  /\ UNCHANGED <<sc_enc, sc_buffer, sc_len, sc_start>>
  /\ UNCHANGED stream_vars

Advance ==
  /\ sc_pc = "scanned"
  /\ sc_result.kind = "offset"
  /\ sc_start' = sc_result.end
  /\ sc_result' = NoResult
  /\ sc_pc' = "ready"
  /\ UNCHANGED <<sc_enc, sc_buffer, sc_len>>
  /\ UNCHANGED stream_vars

ScanNext == Scan \/ Advance

SpecScan == ScanInit /\ [][ScanNext]_vars

(***************************************************************************)
(* The stream: stream_from::read_row, parse_line, get_raw_line, close.     *)
(***************************************************************************)
\* The bytes a raw line is drawn from, per encoding group: tab, backslash,
\* 'N', the escape letters b f n r t v, and bytes that lead or trail a
\* multi-byte glyph of the group.
LineBytes(enc) ==
  {9, 92, 78, 98, 102, 110, 114, 116, 118} \cup
  ( CASE enc \in {"EUC_JP", "EUC_JIS_2004"} -> {143, 161}
      [] enc = "EUC_TW" -> {142, 161}
      [] enc \in {"GB18030", "GBK", "SJIS", "SHIFT_JIS_2004", "UHC"} -> {129}
      [] enc = "JOHAB" -> {132}
      [] enc = "MULE_INTERNAL" -> {129, 160}
      [] enc = "UTF8" -> {128, 195}
      [] OTHER -> {161} )

\* parse_line's local `write`, as an offset into m_row: bytes are stored
\* left to right, so it is the number of bytes stored.
write == Len(m_row)

\* A field view: a zview{field_begin, size} into m_row, or the
\* default-constructed zview of a null field.
NullField == [null |-> TRUE, begin |-> 0, size |-> 0]

FieldView(begin, size) == [null |-> FALSE, begin |-> begin, size |-> size]

\* The byte an escape sequence backslash-c stands for (c # 'N').
Unescape(c) ==
  CASE c = 98 -> 8
    [] c = 102 -> 12
    [] c = 110 -> 10
    [] c = 114 -> 13
    [] c = 116 -> 9
    [] c = 118 -> 11
    [] OTHER -> c

\* The bytes of `buffer` at C offsets from .. to - 1.
Bytes(buffer, from, to) == SubSeq(buffer, from + 1, to)

\* What the line source can throw: broken_connection, or another
\* std::exception.
LineSourceErrors == {"broken_connection", "exception"}

\* A resize to the size of the line, with no room for a terminator.
resize_to_line_size(size) == size

\* m_row.resize(line_size + 1): the size of the row buffer for a line.
resize(size) == size + 1

\* transactionfocus::register_me(): the transaction takes the stream as its
\* focus.
register_me ==
  /\ m_registered' = TRUE
  /\ registrations' = registrations + 1

\* transactionfocus::unregister_me(): the transaction lets go of the stream.
unregister_me ==
  /\ m_registered' = FALSE
  /\ unregistrations' = unregistrations + 1

\* transactionfocus::reg_pending_error(): the transaction keeps the error
\* for later.
reg_pending_error(what) == pending_errors' = Append(pending_errors, what)

\* A close() that does not look at m_finished.
close_unguarded == m_finished' = TRUE /\ unregister_me

\* A close() that marks the stream finished and leaves it registered.
close_without_unregister ==
  /\ m_finished' = TRUE
  /\ UNCHANGED <<m_registered, unregistrations>>

\* stream_from::close().
close ==
  IF ~m_finished
  THEN m_finished' = TRUE /\ unregister_me
  ELSE UNCHANGED <<m_finished, m_registered, unregistrations>>

\* parse_line's locals at the start of a public operation: nothing
\* fetched, nothing read.
FreshLocals ==
  /\ line_kind' = "none"
  /\ line' = <<>>
  /\ line_size' = 0
  /\ read' = 0
  /\ field_begin' = 0
  /\ iterations' = 0

\* The public call of close(), between two other calls.
Close ==
  /\ pc = "idle"
  /\ close
  /\ FreshLocals
  /\ read_copy_line' = "not called"
  /\ call' = "close"
  /\ finished_before' = m_finished
  /\ outcome' = "returned"
  /\ UNCHANGED <<m_glyph_scanner, m_fields, m_row, m_row_size, pc,
                 server_encoding, registrations, exec0_calls, pending_errors>>
  /\ UNCHANGED scan_vars

\* read_row() entering a parse_line that lacks the early return of a
\* finished stream.
read_row_begin_without_early_return ==
  /\ pc = "idle"
  /\ m_fields' = <<>>
  /\ outcome' = "none"
  /\ pc' = "fetch"
  /\ call' = "read_row"
  /\ finished_before' = m_finished
  /\ FreshLocals
  /\ read_copy_line' = "not called"
  /\ m_row' = <<>>
  /\ UNCHANGED <<m_glyph_scanner, m_finished, m_registered, m_row_size>>
  /\ UNCHANGED session_vars
  /\ UNCHANGED scan_vars

\* read_row() enters parse_line: the early return of a finished stream
\* (read_row() then returns nullptr), or m_fields.clear() with nothing
\* fetched or stored yet by this call.
read_row_begin ==
  /\ pc = "idle"
  /\ \/ /\ m_finished
        /\ outcome' = "end_of_data"
        /\ UNCHANGED <<m_fields, pc>>
     \/ /\ ~m_finished
        /\ m_fields' = <<>>
        /\ outcome' = "none"
        /\ pc' = "fetch"
  /\ call' = "read_row"
  /\ finished_before' = m_finished
  /\ FreshLocals
  /\ read_copy_line' = "not called"
  /\ m_row' = <<>>
  /\ UNCHANGED <<m_glyph_scanner, m_finished, m_registered, m_row_size>>
  /\ UNCHANGED session_vars
  /\ UNCHANGED scan_vars

\* A get_raw_line() whose handler rethrows without close().
get_raw_line_without_close_on_throw ==
  /\ pc = "fetch"
  /\ \/ /\ line' \in SeqsUpTo(LineBytes(m_glyph_scanner), MaxLineLen)
        /\ line_size' = Len(line')
        /\ read_copy_line' = "line"
        /\ line_kind' = "data"
        /\ m_row_size' = resize(line_size')
        /\ pc' = "parsing"
        /\ UNCHANGED <<m_finished, m_registered, unregistrations, outcome>>
     \/ /\ close
        /\ read_copy_line' = "end of data"
        /\ line_kind' = "null"
        /\ m_row_size' = resize(line_size)
        /\ pc' = "parsing"
        /\ UNCHANGED <<line, line_size, outcome>>
     \/ /\ read_copy_line' \in LineSourceErrors
        /\ outcome' = read_copy_line'
        /\ pc' = "idle"
        /\ UNCHANGED <<m_finished, m_registered, unregistrations, line_kind,
                       line, line_size, m_row_size>>
  /\ UNCHANGED <<m_glyph_scanner, m_fields, m_row, read, field_begin, iterations, call,
                 finished_before, server_encoding, registrations, exec0_calls,
                 pending_errors>>
  /\ UNCHANGED scan_vars

\* get_raw_line() as parse_line calls it, and parse_line up to its loop.
\* The line source delivers a line; or the end-of-data sentinel, and
\* get_raw_line closes the stream; or it throws broken_connection or
\* another exception, and get_raw_line closes the stream and rethrows.
get_raw_line ==
  /\ pc = "fetch"
  /\ \/ /\ line' \in SeqsUpTo(LineBytes(m_glyph_scanner), MaxLineLen)
        /\ line_size' = Len(line')
        /\ read_copy_line' = "line"
        /\ line_kind' = "data"
        /\ m_row_size' = resize(line_size')
        /\ pc' = "parsing"
        /\ UNCHANGED <<m_finished, m_registered, unregistrations, outcome>>
     \/ /\ close
        /\ read_copy_line' = "end of data"
        /\ line_kind' = "null"
        /\ m_row_size' = resize(line_size)
        /\ pc' = "parsing"
        /\ UNCHANGED <<line, line_size, outcome>>
     \/ /\ close
        /\ read_copy_line' \in LineSourceErrors
        /\ outcome' = read_copy_line'
        /\ pc' = "idle"
        /\ UNCHANGED <<line_kind, line, line_size, m_row_size>>
  /\ UNCHANGED <<m_glyph_scanner, m_fields, m_row, read, field_begin, iterations, call,
                 finished_before, server_encoding, registrations, exec0_calls,
                 pending_errors>>
  /\ UNCHANGED scan_vars

\* A field end that writes no terminator after the field's bytes.
EndField_without_terminator ==
  /\ m_fields' = Append(m_fields,
                        IF field_begin = NullPtr
                        THEN NullField
                        ELSE FieldView(field_begin, write - field_begin))
  /\ m_row' = m_row

\* Ending a field, at a tab or at the end of the line.
EndField ==
  IF field_begin = NullPtr
  THEN /\ m_fields' = Append(m_fields, NullField)
       /\ m_row' = m_row
  ELSE /\ m_fields' = Append(m_fields, FieldView(field_begin, write - field_begin))
       /\ m_row' = Append(m_row, 0)

\* One iteration of parse_line's loop.  A throw ends the read_row() call.
parse_line_step ==
  /\ pc = "parsing"
  /\ read < line_size
  /\ iterations' = iterations + 1
  /\ \E beyond \in BeyondBytes :
     \E found \in {next_seq(m_glyph_scanner, line \o <<beyond>>, line_size, read)} :
     LET line_begin == line \o <<beyond>>
         c == get_byte(line_begin, read)
         c2 == get_byte(line_begin, read + 1)
     IN
     \/ /\ found.kind = "error"
        /\ outcome' = "argument_error"
        /\ pc' = "idle"
        /\ UNCHANGED <<m_fields, m_row, read, field_begin>>
     \/ /\ found.kind = "offset"
        /\ found.end = read + 1
        /\ c = 9
        /\ EndField
        /\ field_begin' = Len(m_row')
        /\ read' = read + 1
        /\ UNCHANGED <<pc, outcome>>
     \/ /\ found.kind = "offset"
        /\ found.end = read + 1
        /\ c = 92
        /\ read + 1 >= line_size
        /\ outcome' = "Row ends in backslash"
        /\ pc' = "idle"
        /\ read' = read + 1
        /\ UNCHANGED <<m_fields, m_row, field_begin>>
     \/ /\ found.kind = "offset"
        /\ found.end = read + 1
        /\ c = 92
        /\ read + 1 < line_size
        /\ c2 = 78
        /\ write # field_begin
        /\ outcome' = "Null sequence found in nonempty field"
        /\ pc' = "idle"
        /\ read' = read + 2
        /\ UNCHANGED <<m_fields, m_row, field_begin>>
     \/ /\ found.kind = "offset"
        /\ found.end = read + 1
        /\ c = 92
        /\ read + 1 < line_size
        /\ c2 = 78
        /\ write = field_begin
        /\ field_begin' = NullPtr
        /\ read' = read + 2
        /\ UNCHANGED <<m_fields, m_row, pc, outcome>>
     \/ /\ found.kind = "offset"
        /\ found.end = read + 1
        /\ c = 92
        /\ read + 1 < line_size
        /\ c2 # 78
        /\ m_row' = Append(m_row, Unescape(c2))
        /\ read' = read + 2
        /\ UNCHANGED <<m_fields, field_begin, pc, outcome>>
     \/ /\ found.kind = "offset"
        /\ found.end = read + 1
        /\ c \notin {9, 92}
        /\ m_row' = Append(m_row, c)
        /\ read' = read + 1
        /\ UNCHANGED <<m_fields, field_begin, pc, outcome>>
     \/ /\ found.kind = "offset"
        /\ found.end # read + 1
        /\ m_row' = m_row \o Bytes(line_begin, read, found.end)
        /\ read' = IF read < found.end THEN found.end ELSE read
        /\ UNCHANGED <<m_fields, field_begin, pc, outcome>>
  /\ UNCHANGED <<m_glyph_scanner, m_finished, m_registered, m_row_size,
                 line_kind, line, line_size, call, finished_before,
                 read_copy_line>>
  /\ UNCHANGED session_vars
  /\ UNCHANGED scan_vars

\* After the loop: parse_line ends the last field, and read_row() returns
\* nullptr if the stream is finished, else &m_fields.
parse_line_end ==
  /\ pc = "parsing"
  /\ read >= line_size
  /\ EndField
  /\ outcome' = IF m_finished THEN "end_of_data" ELSE "row"
  /\ pc' = "idle"
  /\ UNCHANGED <<m_glyph_scanner, m_finished, m_registered, m_row_size,
                 line_kind, line, line_size, read, field_begin, iterations, call,
                 finished_before, read_copy_line>>
  /\ UNCHANGED session_vars
  /\ UNCHANGED scan_vars

(***************************************************************************)
(* The life of a stream: stream_from::stream_from, complete, ~stream_from. *)
(***************************************************************************)
\* The names enc_group's table maps to encoding_group::MONOBYTE.
MonobyteNames ==
  {"ISO_8859_5", "ISO_8859_6", "ISO_8859_7", "ISO_8859_8", "KOI8R", "KOI8U",
   "LATIN1", "LATIN2", "LATIN3", "LATIN4", "LATIN5", "LATIN6", "LATIN7",
   "LATIN8", "LATIN9", "LATIN10", "SQL_ASCII", "WIN866", "WIN874", "WIN1250",
   "WIN1251", "WIN1252", "WIN1253", "WIN1254", "WIN1255", "WIN1256",
   "WIN1257", "WIN1258"}

\* enc_group's static table: every other group under its own name.
encoding_map ==
  [encoding_name \in MonobyteNames \cup (EncodingGroups \ {"MONOBYTE"}) |->
     IF encoding_name \in MonobyteNames THEN "MONOBYTE" ELSE encoding_name]

\* An enc_group that falls back on encoding_group::MONOBYTE.
enc_group_with_default(encoding_name) ==
  IF encoding_name \notin DOMAIN encoding_map
  THEN [kind |-> "group", group |-> "MONOBYTE"]
  ELSE [kind |-> "group", group |-> encoding_map[encoding_name]]

\* enc_group(encoding_name): the group found, or std::invalid_argument.
enc_group(encoding_name) ==
  IF encoding_name \notin DOMAIN encoding_map
  THEN [kind |-> "invalid_argument", group |-> ""]
  ELSE [kind |-> "group", group |-> encoding_map[encoding_name]]

\* The names pg_encoding_to_char hands to enc_group here: one per group,
\* two of encoding_group::MONOBYTE, the empty name of an encoding id libpq
\* does not know, and two names the table lacks.
ServerEncodings ==
  (EncodingGroups \ {"MONOBYTE"}) \cup {"LATIN1", "SQL_ASCII"}
    \cup {"", "MONOBYTE", "UTF16"}

\* What tx.exec0(command) can throw.
Exec0Errors == {"sql_error", "broken_connection"}

\* No stream yet: the state a constructor starts from.
Unbuilt ==
  /\ m_glyph_scanner = ""
  /\ m_finished = FALSE
  /\ m_registered = FALSE
  /\ m_fields = <<>>
  /\ m_row = <<>>
  /\ m_row_size = 0
  /\ line_kind = "none"
  /\ line = <<>>
  /\ line_size = 0
  /\ read = 0
  /\ field_begin = 0
  /\ iterations = 0
  /\ pc = "unbuilt"
  /\ outcome = "none"
  /\ call = "none"
  /\ finished_before = FALSE
  /\ server_encoding \in ServerEncodings
  /\ registrations = 0
  /\ unregistrations = 0
  /\ exec0_calls = 0
  /\ read_copy_line = "not called"
  /\ pending_errors = <<>>

\* The constructors: get_scanner(tx) in the member initialisers, then
\* tx.exec0(command), then register_me().  A throw leaves no stream.
stream_from ==
  /\ pc = "unbuilt"
  /\ \E found \in {enc_group(server_encoding)} :
       \/ /\ found.kind = "invalid_argument"
          /\ outcome' = "invalid_argument"
          /\ pc' = "failed"
          /\ UNCHANGED <<m_glyph_scanner, m_registered, registrations,
                         exec0_calls>>
       \/ /\ found.kind = "group"
          /\ m_glyph_scanner' = found.group
          /\ exec0_calls' = exec0_calls + 1
          /\ \/ /\ outcome' \in Exec0Errors
                /\ pc' = "failed"
                /\ UNCHANGED <<m_registered, registrations>>
             \/ /\ register_me
                /\ outcome' = "none"
                /\ pc' = "idle"
  /\ call' = "stream_from"
  /\ UNCHANGED <<m_finished, m_fields, m_row, m_row_size, line_kind, line,
                 line_size, read, field_begin, iterations, finished_before,
                 read_copy_line, server_encoding, unregistrations,
                 pending_errors>>
  /\ UNCHANGED scan_vars

\* A complete() that has no handler for std::exception: every error of the
\* line source is thrown on.
complete_without_exception_handler ==
  /\ pc = "idle"
  /\ FreshLocals
  /\ \/ /\ m_finished
        /\ read_copy_line' = "not called"
        /\ outcome' = "returned"
        /\ UNCHANGED <<m_finished, m_registered, unregistrations,
                       pending_errors>>
     \/ /\ ~m_finished
        /\ close
        /\ \/ /\ read_copy_line' = "end of data"
              /\ outcome' = "returned"
              /\ UNCHANGED pending_errors
           \/ /\ read_copy_line' = "broken_connection"
              /\ outcome' = "broken_connection"
              /\ UNCHANGED pending_errors
           \/ /\ read_copy_line' = "exception"
              /\ outcome' = "exception"
              /\ UNCHANGED pending_errors
  /\ call' = "complete"
  /\ finished_before' = m_finished
  /\ UNCHANGED <<m_glyph_scanner, m_fields, m_row, m_row_size, pc,
                 server_encoding, registrations, exec0_calls>>
  /\ UNCHANGED scan_vars

\* complete(): the early return of a finished stream; or the loop, which
\* ignores the lines get_raw_line() delivers, until get_raw_line() closes
\* the stream and returns the end-of-data sentinel or rethrows what the
\* line source threw.  broken_connection is thrown on, another
\* std::exception is kept for later.  The close() of the handler and the
\* close() that ends complete() find m_finished set by get_raw_line().
complete ==
  /\ pc = "idle"
  /\ FreshLocals
  /\ \/ /\ m_finished
        /\ read_copy_line' = "not called"
        /\ outcome' = "returned"
        /\ UNCHANGED <<m_finished, m_registered, unregistrations,
                       pending_errors>>
     \/ /\ ~m_finished
        /\ close
        /\ \/ /\ read_copy_line' = "end of data"
              /\ outcome' = "returned"
              /\ UNCHANGED pending_errors
           \/ /\ read_copy_line' = "broken_connection"
              /\ outcome' = "broken_connection"
              /\ UNCHANGED pending_errors
           \/ /\ read_copy_line' = "exception"
              /\ reg_pending_error("exception")
              /\ outcome' = "returned"
  /\ call' = "complete"
  /\ finished_before' = m_finished
  /\ UNCHANGED <<m_glyph_scanner, m_fields, m_row, m_row_size, pc,
                 server_encoding, registrations, exec0_calls>>
  /\ UNCHANGED scan_vars

\* The members m_fields and m_row and parse_line's locals once the stream
\* is destroyed: gone.
Destroyed ==
  /\ m_fields' = <<>>
  /\ m_row' = <<>>
  /\ m_row_size' = 0
  /\ FreshLocals
  /\ read_copy_line' = "not called"

\* A destructor that does not call close().
destructor_without_close ==
  /\ pc = "idle"
  /\ Destroyed
  /\ call' = "destructor"
  /\ finished_before' = m_finished
  /\ outcome' = "returned"
  /\ pc' = "destroyed"
  /\ UNCHANGED <<m_glyph_scanner, m_finished, m_registered, server_encoding,
                 registrations, unregistrations, exec0_calls, pending_errors>>
  /\ UNCHANGED scan_vars

\* ~stream_from(), between two calls: close() returns, and so does the
\* destructor.
destructor ==
  /\ pc = "idle"
  /\ close
  /\ Destroyed
  /\ call' = "destructor"
  /\ finished_before' = m_finished
  /\ outcome' = "returned"
  /\ pc' = "destroyed"
  /\ UNCHANGED <<m_glyph_scanner, server_encoding, registrations, exec0_calls,
                 pending_errors>>
  /\ UNCHANGED scan_vars

\* unregister_me() throwing: the transaction keeps the stream as its focus.
unregister_me_throws == UNCHANGED <<m_registered, unregistrations>>

\* A destructor with no handler around close().
destructor_without_handler ==
  /\ pc = "idle"
  /\ ~m_finished
  /\ m_finished' = TRUE
  /\ unregister_me_throws
  /\ Destroyed
  /\ call' = "destructor"
  /\ finished_before' = m_finished
  /\ outcome' = "exception"
  /\ pc' = "destroyed"
  /\ UNCHANGED <<m_glyph_scanner, server_encoding, registrations, exec0_calls,
                 pending_errors>>
  /\ UNCHANGED scan_vars

\* ~stream_from() when its close() throws: close() has set m_finished, the
\* handler keeps e.what() as a pending error, and the destructor returns.
destructor_catch ==
  /\ pc = "idle"
  /\ ~m_finished
  /\ m_finished' = TRUE
  /\ unregister_me_throws
  /\ reg_pending_error("unregister_me")
  /\ Destroyed
  /\ call' = "destructor"
  /\ finished_before' = m_finished
  /\ outcome' = "returned"
  /\ pc' = "destroyed"
  /\ UNCHANGED <<m_glyph_scanner, server_encoding, registrations, exec0_calls>>
  /\ UNCHANGED scan_vars

Init == ScanIdle /\ Unbuilt

Next ==
  \/ stream_from
  \/ read_row_begin
  \/ get_raw_line
  \/ parse_line_step
  \/ parse_line_end
  \/ Close
  \/ complete
  \/ destructor

Spec == Init /\ [][Next]_vars

\* The stream with a transaction whose unregister_me() can throw when the
\* destructor closes the stream.
NextTeardown == Next \/ destructor_catch

SpecTeardown == Init /\ [][NextTeardown]_vars

(***************************************************************************)
(* The grammars of the encoding groups, as the claims refer to them: the   *)
(* lead and trailing byte ranges of the standards the scanners cite.       *)
(***************************************************************************)
\* b alone is a complete glyph of the group.
SingleByteGlyph(enc, b) ==
  \/ b < 128
  \/ enc = "MONOBYTE"
  \/ enc \in {"SJIS", "SHIFT_JIS_2004"} /\ between_inc(b, 161, 223)

\* g, of two to four bytes, is exactly one multi-byte glyph of the group.
MultiByteGlyph(enc, g) ==
  LET n == Len(g)
      Hi(i) == between_inc(g[i], 161, 254)
  IN
  CASE enc = "BIG5" ->
         /\ n = 2
         /\ between_inc(g[1], 129, 254)
         /\ between_inc(g[2], 64, 126) \/ between_inc(g[2], 161, 254)
    [] enc = "EUC_CN" -> n = 2 /\ between_inc(g[1], 161, 247) /\ Hi(2)
    [] enc \in {"EUC_JP", "EUC_JIS_2004"} ->
         \/ n = 2 /\ (g[1] = 142 \/ Hi(1)) /\ Hi(2)
         \/ n = 3 /\ g[1] = 143 /\ Hi(2) /\ Hi(3)
    [] enc = "EUC_KR" -> n = 2 /\ Hi(1) /\ Hi(2)
    [] enc = "EUC_TW" ->
         \/ n = 2 /\ Hi(1) /\ Hi(2)
         \/ n = 4 /\ g[1] = 142 /\ between_inc(g[2], 161, 176) /\ Hi(3) /\ Hi(4)
    [] enc = "GB18030" ->
         \/ /\ n = 2
            /\ between_inc(g[1], 129, 254)
            /\ between_inc(g[2], 64, 254)
            /\ g[2] # 127
         \/ /\ n = 4
            /\ between_inc(g[1], 129, 254)
            /\ between_inc(g[2], 48, 57)
            /\ between_inc(g[3], 129, 254)
            /\ between_inc(g[4], 48, 57)
    [] enc = "GBK" ->
         /\ n = 2
         /\ between_inc(g[1], 129, 254)
         /\ between_inc(g[2], 64, 254)
         /\ g[2] # 127
    [] enc = "JOHAB" ->
         /\ n = 2
         /\ \/ /\ between_inc(g[1], 132, 211)
               /\ between_inc(g[2], 65, 126) \/ between_inc(g[2], 129, 254)
            \/ /\ between_inc(g[1], 216, 222) \/ between_inc(g[1], 224, 249)
               /\ between_inc(g[2], 49, 126) \/ between_inc(g[2], 145, 254)
    [] enc = "MULE_INTERNAL" ->
         \/ n = 2 /\ between_inc(g[1], 129, 141) /\ g[2] >= 160
         \/ /\ n = 3
            /\ \/ between_inc(g[1], 144, 153) /\ g[2] >= 160
               \/ g[1] = 154 /\ between_inc(g[2], 160, 223)
               \/ g[1] = 155 /\ between_inc(g[2], 224, 239)
            /\ g[3] >= 160
         \/ /\ n = 4
            /\ \/ g[1] = 156 /\ between_inc(g[2], 240, 244)
               \/ g[1] = 157 /\ between_inc(g[2], 245, 254)
            /\ g[3] >= 160
            /\ g[4] >= 160
    [] enc \in {"SJIS", "SHIFT_JIS_2004"} ->
         /\ n = 2
         /\ between_inc(g[1], 129, 159) \/ between_inc(g[1], 224, 252)
         /\ between_inc(g[2], 64, 252)
         /\ g[2] # 127
    [] enc = "UHC" ->
         /\ n = 2
         /\ \/ /\ between_inc(g[1], 129, 198)
               /\ \/ between_inc(g[2], 65, 90)
                  \/ between_inc(g[2], 97, 122)
                  \/ between_inc(g[2], 129, 254)
            \/ Hi(1) /\ Hi(2)
    [] enc = "UTF8" ->
         /\ \/ n = 2 /\ between_inc(g[1], 192, 223)
            \/ n = 3 /\ between_inc(g[1], 224, 239)
            \/ n = 4 /\ between_inc(g[1], 240, 247)
         /\ \A i \in 2 .. n : between_inc(g[i], 128, 191)
    [] OTHER -> FALSE

\* b is the lead byte of some multi-byte glyph of the group.
LeadByte(enc, b) ==
  CASE enc \in {"BIG5", "GB18030", "GBK"} -> between_inc(b, 129, 254)
    [] enc = "EUC_CN" -> between_inc(b, 161, 247)
    [] enc \in {"EUC_JP", "EUC_JIS_2004"} ->
         b \in {142, 143} \/ between_inc(b, 161, 254)
    [] enc = "EUC_KR" -> between_inc(b, 161, 254)
    [] enc = "EUC_TW" -> b = 142 \/ between_inc(b, 161, 254)
    [] enc = "JOHAB" ->
         \/ between_inc(b, 132, 211)
         \/ between_inc(b, 216, 222)
         \/ between_inc(b, 224, 249)
    [] enc = "MULE_INTERNAL" ->
         between_inc(b, 129, 141) \/ between_inc(b, 144, 157)
    [] enc \in {"SJIS", "SHIFT_JIS_2004"} ->
         between_inc(b, 129, 159) \/ between_inc(b, 224, 252)
    [] enc = "UHC" -> between_inc(b, 129, 198) \/ between_inc(b, 161, 254)
    [] enc = "UTF8" -> between_inc(b, 192, 247)
    [] OTHER -> FALSE

\* The bytes of the scanned buffer from start to its end.
ScanTail == SubSeq(sc_buffer, sc_start + 1, sc_len)

\* The scanner call has been made, at a start inside the buffer.
Scanned == sc_pc = "scanned" /\ sc_start < sc_len

(***************************************************************************)
(* Claims about the glyph scanners, checked under SpecScan.                *)
(***************************************************************************)
\* C4: in every encoding group, on a buffer whose bytes are all below 0x80
\* and at every start < buffer_len, the scanner returns start + 1 and
\* raises no error.
C4_AsciiAdvancesOneByte ==
  (Scanned /\ \A i \in 1 .. sc_len : sc_buffer[i] < 128)
    => (sc_result.kind = "offset" /\ sc_result.end = sc_start + 1)

\* C6: when the byte at start is a lead byte of a multi-byte glyph and the
\* buffer ends before the glyph completes or a trailing byte is outside its
\* legal range (no glyph of the group begins at start), the scanner raises
\* a decoding error and returns no offset.
C6_MalformedSequenceRaises ==
  ( /\ Scanned
    /\ LeadByte(sc_enc, sc_buffer[sc_start + 1])
    /\ ~ \E k \in 2 .. 4 :
           k <= Len(ScanTail) /\ MultiByteGlyph(sc_enc, SubSeq(ScanTail, 1, k)) )
    => sc_result.kind = "error"

\* C7: a scanner call at any start <= buffer_len reads only the bytes of
\* the buffer at offsets start .. buffer_len - 1, also when it raises.
C7_ReadsStayInsideBuffer ==
  sc_pc = "scanned" => sc_result.reads \subseteq sc_start .. (sc_len - 1)

\* C8: whenever the scanner returns an offset end for a call with
\* start < buffer_len, start < end <= buffer_len.
C8_ReturnedOffsetInRange ==
  (Scanned /\ sc_result.kind = "offset")
    => (sc_start < sc_result.end /\ sc_result.end <= sc_len)

\* C8's case: a four-byte glyph that ends exactly where the buffer ends.
C8_Witness ==
  /\ Scanned
  /\ sc_result.kind = "offset"
  /\ sc_result.end = sc_start + 4
  /\ sc_result.end = sc_len

\* C9: a valid multi-byte glyph of the group placed at start and cut short
\* by its last byte, so that the buffer ends there, makes the scanner raise
\* a decoding error that names this encoding group and the offset start.
C9_TruncatedGlyphNamesEncoding ==
  (Scanned /\ \E b \in 0 .. 255 : MultiByteGlyph(sc_enc, ScanTail \o <<b>>))
    => ( /\ sc_result.kind = "error"
         /\ sc_result.name = sc_enc
         /\ sc_result.at = sc_start )

(***************************************************************************)
(* Claims about read_row(), checked under Spec.                            *)
(***************************************************************************)
\* The latest read_row() call fetched `line` and has ended.
ReadDone == pc = "idle" /\ call = "read_row" /\ line_kind = "data"

\* The bytes a field view denotes.
FieldBytes(f) == SubSeq(m_row, f.begin + 1, f.begin + f.size)

\* The pieces of s between its tab bytes, in order.
RECURSIVE SplitTabs(_)
SplitTabs(s) ==
  IF \A i \in 1 .. Len(s) : s[i] # 9
  THEN <<s>>
  ELSE LET i == CHOOSE j \in 1 .. Len(s) :
                  s[j] = 9 /\ \A k \in 1 .. (j - 1) : s[k] # 9
       IN <<SubSeq(s, 1, i - 1)>> \o SplitTabs(SubSeq(s, i + 1, Len(s)))

\* s holds no backslash and only single-byte glyphs.
PlainBytes(s) ==
  \A i \in 1 .. Len(s) : s[i] # 92 /\ SingleByteGlyph(m_glyph_scanner, s[i])

\* C1: a raw line with no backslash and only single-byte glyphs yields
\* (number of tabs + 1) fields, in wire order, each non-null and equal to
\* the bytes between consecutive tabs.
C1_PlainLineSplitsOnTabs ==
  (ReadDone /\ PlainBytes(line))
    => /\ outcome = "row"
       /\ Len(m_fields) = Len(SplitTabs(line))
       /\ \A i \in 1 .. Len(m_fields) :
            /\ ~m_fields[i].null
            /\ FieldBytes(m_fields[i]) = SplitTabs(line)[i]

\* The wire form of SQL NULL: backslash, 'N'.
NullOnWire == <<92, 78>>

\* The bytes the non-null ones among the wire fields w occupy in m_row:
\* each with one terminator byte.
RECURSIVE StoredSize(_)
StoredSize(w) ==
  IF w = <<>> THEN 0
  ELSE (IF Head(w) = NullOnWire THEN 0 ELSE Len(Head(w)) + 1) + StoredSize(Tail(w))

\* C2: a field whose wire content is exactly backslash-N comes back as a
\* null field view, with no terminator byte stored for it, and every other
\* field of the line comes back non-null with its own content.
C2_NullMarkerGivesNullField ==
  LET w == SplitTabs(line) IN
  ( /\ ReadDone
    /\ \E i \in 1 .. Len(w) : w[i] = NullOnWire
    /\ \A i \in 1 .. Len(w) : w[i] = NullOnWire \/ PlainBytes(w[i]) )
    => /\ outcome = "row"
       /\ Len(m_fields) = Len(w)
       /\ \A i \in 1 .. Len(m_fields) :
            IF w[i] = NullOnWire
            THEN m_fields[i].null
            ELSE ~m_fields[i].null /\ FieldBytes(m_fields[i]) = w[i]
       /\ Len(m_row) = StoredSize(w)

\* The byte the claim says backslash-c emits.
EscapeValue(c) ==
  CASE c = 98 -> 8
    [] c = 102 -> 12
    [] c = 110 -> 10
    [] c = 114 -> 13
    [] c = 116 -> 9
    [] c = 118 -> 11
    [] OTHER -> c

\* s is ASCII without a raw tab, and each backslash escapes a following
\* byte other than 'N'.
RECURSIVE EscapedText(_)
EscapedText(s) ==
  IF s = <<>> THEN TRUE
  ELSE IF s[1] = 92
  THEN Len(s) >= 2 /\ s[2] # 78 /\ s[2] < 128 /\ EscapedText(SubSeq(s, 3, Len(s)))
  ELSE s[1] # 9 /\ s[1] < 128 /\ EscapedText(Tail(s))

\* What an EscapedText decodes to.
RECURSIVE Decoded(_)
Decoded(s) ==
  IF s = <<>> THEN <<>>
  ELSE IF s[1] = 92
  THEN <<EscapeValue(s[2])>> \o Decoded(SubSeq(s, 3, Len(s)))
  ELSE <<s[1]>> \o Decoded(Tail(s))

\* C3: backslash followed by b, f, n, r, t, v emits the one control byte,
\* backslash followed by another byte (not 'N') emits that byte, and an
\* escape never closes a field: the line is one field holding the decoded
\* bytes.
C3_EscapesDecodeInsideField ==
  ( /\ ReadDone
    /\ EscapedText(line)
    /\ \E i \in 1 .. Len(line) : line[i] = 92 )
    => /\ outcome = "row"
       /\ Len(m_fields) = 1
       /\ ~m_fields[1].null
       /\ FieldBytes(m_fields[1]) = Decoded(line)

\* The encoding groups whose two-byte glyphs may end in 0x5C.
BackslashTrailGroups ==
  {"BIG5", "GBK", "GB18030", "SJIS", "SHIFT_JIS_2004", "JOHAB"}

\* C5: in those groups a valid two-byte glyph whose second byte is 0x5C
\* (here: the first glyph of the line) is copied into the current field
\* with both bytes verbatim; the 0x5C starts no escape and no byte of the
\* glyph ends a field.
C5_BackslashTrailByteCopied ==
  ( /\ line_kind = "data"
    /\ m_glyph_scanner \in BackslashTrailGroups
    /\ line_size >= 2
    /\ line[2] = 92
    /\ MultiByteGlyph(m_glyph_scanner, <<line[1], 92>>) )
    => \/ pc = "parsing" /\ read = 0
       \/ /\ read >= 2
          /\ Len(m_row) >= 2
          /\ SubSeq(m_row, 1, 2) = <<line[1], 92>>
          /\ outcome = "row" =>
               /\ ~m_fields[1].null
               /\ m_fields[1].begin = 0
               /\ m_fields[1].size >= 2

\* The number of backslashes s ends in.
RECURSIVE TrailingBackslashes(_)
TrailingBackslashes(s) ==
  IF s = <<>> \/ s[Len(s)] # 92 THEN 0
  ELSE 1 + TrailingBackslashes(SubSeq(s, 1, Len(s) - 1))

\* C10: a raw line (here: of ASCII bytes) whose last glyph is an unescaped
\* backslash, one that no backslash before it escapes, makes read_row()
\* fail with a protocol error (pqxx::failure) and return no row.
C10_LoneBackslashIsProtocolError ==
  ( /\ ReadDone
    /\ \A i \in 1 .. Len(line) : line[i] < 128
    /\ TrailingBackslashes(line) % 2 = 1 )
    => outcome \in {"Row ends in backslash", "Null sequence found in nonempty field"}

\* Walking the ASCII text s of a raw line from a field that has bytes
\* written to it or not: a backslash-N comes up in a field that has.
RECURSIVE NullAfterBytes(_, _)
NullAfterBytes(s, written) ==
  IF s = <<>> THEN FALSE
  ELSE IF s[1] = 9 THEN NullAfterBytes(Tail(s), FALSE)
  ELSE IF s[1] # 92 THEN NullAfterBytes(Tail(s), TRUE)
  ELSE IF Len(s) < 2 THEN FALSE
  ELSE IF s[2] = 78 THEN written \/ NullAfterBytes(SubSeq(s, 3, Len(s)), written)
  ELSE NullAfterBytes(SubSeq(s, 3, Len(s)), TRUE)

\* C11: a raw line (here: of ASCII bytes) in which backslash-N occurs in a
\* field after at least one byte was written into that field makes
\* read_row() fail with the protocol error (pqxx::failure) "Null sequence
\* found in nonempty field", and return no row.
C11_NullInNonemptyFieldIsProtocolError ==
  ( /\ ReadDone
    /\ \A i \in 1 .. Len(line) : line[i] < 128
    /\ NullAfterBytes(line, FALSE) )
    => outcome = "Null sequence found in nonempty field"

\* The latest call was read_row(), and it ended in a throw from parse_line's
\* loop: a protocol error or a scanner's decoding error.
ReadFailed ==
  /\ pc = "idle"
  /\ call = "read_row"
  /\ outcome \in {"Row ends in backslash",
                  "Null sequence found in nonempty field", "argument_error"}

\* C12: when read_row() fails on a malformed line, the stream is closed:
\* it is finished and no longer registered with its transaction (so that
\* every later read_row() returns end-of-data).
C12_MalformedLineClosesStream ==
  ReadFailed => m_finished /\ ~m_registered

\* The latest call was read_row(), and it has ended.
ReadRowOver == pc = "idle" /\ call = "read_row"

\* C13: when the line source returns the end-of-data sentinel, read_row()
\* returns end-of-data with the stream finished; close() leaves the stream
\* finished; no operation makes a finished stream unfinished; and a
\* read_row() on a stream that was finished when the call began returns
\* end-of-data and has made no call to the line source.
C13_EndOfDataIsFinal ==
  /\ (ReadRowOver /\ read_copy_line = "end of data")
       => outcome = "end_of_data" /\ m_finished
  /\ (ReadRowOver /\ finished_before)
       => outcome = "end_of_data" /\ m_finished /\ read_copy_line = "not called"
  /\ (pc = "idle" /\ call = "close") => m_finished
  /\ finished_before => m_finished

\* A read_row() after the end of data, and one after close(), have
\* returned.
C13_Witness ==
  /\ ReadRowOver
  /\ finished_before
  /\ outcome = "end_of_data"
  /\ read_copy_line = "not called"
  /\ unregistrations = 1

\* The latest call was close(), from outside, and it has returned.
CloseOver == pc = "idle" /\ call = "close"

\* C14: close() is idempotent.  The first close() on a stream not yet
\* finished sets m_finished and deregisters the stream once; a later
\* close(), like any close() on a finished stream, leaves it finished and
\* deregisters nothing: the stream is never deregistered twice.
C14_CloseIsIdempotent ==
  /\ unregistrations <= 1
  /\ CloseOver => m_finished /\ ~m_registered /\ unregistrations = 1

\* A close() on a stream that an earlier close() had finished has
\* returned.
C14_Witness ==
  /\ CloseOver
  /\ finished_before
  /\ read_copy_line = "not called"
  /\ pending_errors = <<>>
  /\ unregistrations = 1

\* C15: when the line source fails with a connection error during
\* read_row(), the stream is closed (finished, deregistered) by the time
\* the error reaches the caller; the caller gets that same error, and
\* nothing is recorded as a pending error; and a read_row() on the stream
\* so finished returns end-of-data.
C15_ConnectionErrorClosesAndPropagates ==
  /\ (ReadRowOver /\ read_copy_line = "broken_connection")
       => /\ m_finished
          /\ ~m_registered
          /\ unregistrations = 1
          /\ outcome = "broken_connection"
          /\ pending_errors = <<>>
  /\ (ReadRowOver /\ finished_before) => outcome = "end_of_data"

\* A read_row() in which the line source threw broken_connection has
\* ended.
C15_Witness ==
  /\ ReadRowOver
  /\ ~finished_before
  /\ read_copy_line = "broken_connection"
  /\ outcome = "broken_connection"
  /\ m_finished

\* The latest call was complete(), and it has ended.
CompleteOver == pc = "idle" /\ call = "complete"

\* C16: complete() always leaves the stream finished and deregistered,
\* whether it returns or throws.  On a stream not yet finished it calls the
\* line source until that returns the end-of-data sentinel or throws; it
\* throws only broken_connection, and exactly when the line source threw
\* it, recording nothing; any other error of the line source is recorded
\* as a pending error and complete() returns.
C16_CompleteAlwaysCloses ==
  CompleteOver =>
    /\ m_finished
    /\ ~m_registered
    /\ unregistrations = 1
    /\ outcome \in {"returned", "broken_connection"}
    /\ outcome = "broken_connection" <=> read_copy_line = "broken_connection"
    /\ read_copy_line = "broken_connection" => pending_errors = <<>>
    /\ read_copy_line = "exception" => pending_errors = <<"exception">>
    /\ read_copy_line = "end of data" => pending_errors = <<>>
    /\ ~finished_before
         => read_copy_line \in {"end of data", "broken_connection", "exception"}

\* A complete() in which the line source threw an error other than
\* broken_connection has returned.
C16_Witness ==
  /\ CompleteOver
  /\ ~finished_before
  /\ read_copy_line = "exception"
  /\ outcome = "returned"
  /\ pending_errors = <<"exception">>
  /\ m_finished

\* C17: over the life of a stream, in any interleaving of read_row(),
\* close(), complete(), errors of the line source and destruction, the
\* stream is registered with its transaction at most once, by a
\* constructor whose COPY command went through; it is never deregistered
\* unless registered; it is registered exactly between its registration
\* and its deregistration; and a stream that was constructed has been
\* deregistered exactly once when its destructor has ended.
C17_RegisteredOnceDeregisteredOnce ==
  /\ registrations <= 1
  /\ unregistrations <= registrations
  /\ registrations = 1 => exec0_calls = 1 /\ pc \notin {"unbuilt", "failed"}
  /\ pc \in {"unbuilt", "failed"} => registrations = 0
  /\ m_registered <=> (registrations = 1 /\ unregistrations = 0)
  /\ pc = "destroyed" => registrations = 1 /\ unregistrations = 1

\* A stream that was still registered when its destructor began has been
\* destroyed.
C17_Witness ==
  /\ pc = "destroyed"
  /\ ~finished_before
  /\ registrations = 1
  /\ unregistrations = 1

\* C18: an encoding name that enc_group's table lacks makes the
\* constructor fail with std::invalid_argument before the COPY command is
\* issued and before the stream is registered; no stream exists then, so
\* no read_row() is ever made, or fails, under an unrecognized encoding
\* name.
C18_UnrecognizedEncodingFailsAtOpen ==
  /\ (pc # "unbuilt" /\ server_encoding \notin DOMAIN encoding_map)
       => /\ pc = "failed"
          /\ call = "stream_from"
          /\ outcome = "invalid_argument"
          /\ exec0_calls = 0
          /\ registrations = 0
  /\ outcome = "invalid_argument" => call = "stream_from"
  /\ call = "read_row" => server_encoding \in DOMAIN encoding_map

\* A constructor has failed on a name the table lacks.
C18_Witness ==
  /\ pc = "failed"
  /\ server_encoding \notin DOMAIN encoding_map
  /\ outcome = "invalid_argument"
  /\ exec0_calls = 0

\* C19: destroying a stream never lets an error escape.  The destructor
\* returns normally, with the stream finished; and if its close() threw,
\* which leaves the stream registered, what it threw is the latest pending
\* error.
C19_DestructorNeverThrows ==
  pc = "destroyed" =>
    /\ outcome = "returned"
    /\ m_finished
    /\ m_registered =>
         /\ pending_errors # <<>>
         /\ pending_errors[Len(pending_errors)] = "unregister_me"

\* A destructor whose close() threw has returned.
C19_Witness ==
  /\ pc = "destroyed"
  /\ m_registered
  /\ ~finished_before
  /\ outcome = "returned"
  /\ pending_errors = <<"unregister_me">>

\* C20: while read_row() parses a raw line of length L, and when it has
\* ended, the bytes written into m_row, field bytes and terminators
\* together, number at most L + 1, the size m_row was resized to: no write
\* lands outside the buffer.
C20_WritesStayInsideRowBuffer ==
  line_kind \in {"data", "null"} =>
    /\ Len(m_row) <= m_row_size
    /\ m_row_size <= line_size + 1

\* A row of several fields that fills the buffer to its last byte has been
\* returned.
C20_Witness ==
  /\ ReadDone
  /\ outcome = "row"
  /\ line_size >= 3
  /\ Len(m_fields) >= 2
  /\ Len(m_row) = line_size + 1
  /\ Len(m_row) = m_row_size

\* The offsets of the row buffer that the field view f covers.
FieldOffsets(f) == IF f.null THEN {} ELSE f.begin .. (f.begin + f.size - 1)

\* The offset just behind the field view f, where its terminator lies.
TerminatorOffset(f) == f.begin + f.size

\* C21: after every read_row() that returned a row, every non-null field
\* view lies inside the row buffer, the non-null views appear at strictly
\* increasing offsets in column order and do not overlap, and each is
\* directly followed in the buffer by a zero byte that is inside the buffer
\* and belongs to no field.
C21_FieldViewsAreDisjointAndTerminated ==
  (ReadDone /\ outcome = "row")
    => /\ \A i \in 1 .. Len(m_fields) :
            ~m_fields[i].null
              => /\ m_fields[i].begin >= 0
                 /\ m_fields[i].size >= 0
                 /\ TerminatorOffset(m_fields[i]) < Len(m_row)
                 /\ TerminatorOffset(m_fields[i]) < m_row_size
                 /\ m_row[TerminatorOffset(m_fields[i]) + 1] = 0
                 /\ \A j \in 1 .. Len(m_fields) :
                      TerminatorOffset(m_fields[i]) \notin FieldOffsets(m_fields[j])
       /\ \A i, j \in 1 .. Len(m_fields) :
            (i < j /\ ~m_fields[i].null /\ ~m_fields[j].null)
              => TerminatorOffset(m_fields[i]) < m_fields[j].begin

\* C21's case: a returned row of two non-null fields of one byte each.
C21_Witness ==
  /\ ReadDone
  /\ outcome = "row"
  /\ Len(m_fields) = 2
  /\ ~m_fields[1].null
  /\ m_fields[1].size = 1
  /\ ~m_fields[2].null
  /\ m_fields[2].size = 1

\* C22: whenever a constructed stream is between operations, it is finished
\* if and only if it has been deregistered from its session, and it has
\* been deregistered exactly once then and never otherwise.
C22_FinishedIffDeregistered ==
  pc = "idle"
    => /\ m_finished <=> ~m_registered
       /\ m_finished <=> unregistrations = 1
       /\ ~m_finished <=> unregistrations = 0

\* C22's case: read_row() met the end of the data, which finished and
\* deregistered the stream.
C22_Witness ==
  /\ pc = "idle"
  /\ call = "read_row"
  /\ read_copy_line = "end of data"
  /\ ~finished_before
  /\ m_finished
  /\ ~m_registered
  /\ unregistrations = 1

\* No tab of s directly follows a backslash, so that every tab of s is a
\* field separator and SplitTabs(s) are the wire fields.
NoTabAfterBackslash(s) ==
  \A i \in 1 .. (Len(s) - 1) : ~(s[i] = 92 /\ s[i + 1] = 9)

\* C23: read_row() returns a null field view only for a field whose wire
\* content is exactly backslash-N; a field where further bytes follow the
\* null marker before the next tab or the end of the line is never returned
\* as a null field.
C23_NullOnlyForExactMarker ==
  (ReadDone /\ outcome = "row" /\ NoTabAfterBackslash(line))
    => LET w == SplitTabs(line) IN
       \A i \in 1 .. Len(m_fields) :
         m_fields[i].null => (i <= Len(w) /\ w[i] = NullOnWire)

\* The k bytes of s from offset from on are exactly one glyph of the group.
GlyphAt(enc, s, from, k) ==
  /\ from + k <= Len(s)
  /\ IF k = 1
     THEN SingleByteGlyph(enc, s[from + 1])
     ELSE MultiByteGlyph(enc, SubSeq(s, from + 1, from + k))

\* The glyph boundaries of s from offset from on: from itself and the end of
\* every glyph of an unbroken run of glyphs that starts at from.
RECURSIVE GlyphBoundaries(_, _, _)
GlyphBoundaries(enc, s, from) ==
  {from} \cup UNION {GlyphBoundaries(enc, s, from + k) :
                       k \in {n \in 1 .. 4 : GlyphAt(enc, s, from, n)}}

\* s is made of valid glyphs of the group from its first byte to its last.
ValidGlyphs(enc, s) == Len(s) \in GlyphBoundaries(enc, s, 0)

\* C24: during read_row(), on every line made of valid glyphs of the
\* stream's encoding group, each offset at which the glyph scanner is about
\* to be invoked is a glyph boundary of the line: offset 0 or the end of a
\* glyph, never the middle of a multi-byte glyph.
C24_ScannerStartsAtGlyphBoundary ==
  (pc = "parsing" /\ line_kind = "data" /\ read < line_size
     /\ ValidGlyphs(m_glyph_scanner, line))
    => read \in GlyphBoundaries(m_glyph_scanner, line, 0)

\* C25: every read_row() call ends.  Inside parse_line's loop every
\* iteration begun so far has advanced the read position by at least one
\* byte, the read position is never behind the end of the line, and a next
\* step (an iteration, or the end of the last field) can always be taken;
\* once the call is over, by a returned row, the end of the data or an
\* error, it has begun at most as many iterations as the line has bytes.
C25_ReadRowTerminates ==
  /\ pc = "parsing"
       => /\ iterations <= read
          /\ read <= line_size
          /\ ENABLED (parse_line_step \/ parse_line_end)
  /\ ReadRowOver
       => /\ iterations <= line_size
          /\ read <= line_size

\* C25's case: a row returned after as many iterations as the line has
\* bytes, more than one.
C25_Witness ==
  /\ ReadDone
  /\ outcome = "row"
  /\ line_size > 1
  /\ iterations = line_size
  /\ read = line_size
====
